---- MODULE Spec2Model ----
(***************************************************************************)
(* Model of soundbar_tone_player.py: the TonePlayer class (settings file,  *)
(* play_audio, the timer_loop threads, start_timer / stop_timer /          *)
(* set_interval, the tray commands) and main().                            *)
(*                                                                         *)
(* Threads: the main thread (constructor, test_play or run_systray; the    *)
(* tray callbacks run on it one at a time, inside icon.run()), the         *)
(* timer_loop threads spawned by start_timer, and the one-shot threads     *)
(* spawned by on_play_now.  Time is abstracted: a blocking call is a       *)
(* state a thread sits in; Thread.join(timeout=2) returns when the thread  *)
(* is dead, and can time out only while the thread is blocked inside the   *)
(* playback (sf.read / sd.wait), the one call of the loop that can last    *)
(* longer than 2 seconds (time.sleep(1) cannot).                           *)
(*                                                                         *)
(* Numbers of the settings file are rationals n/d, so that an interval of  *)
(* a fraction of a minute keeps the sleep counts small.                    *)
(***************************************************************************)
EXTENDS Integers, FiniteSets, Sequences, TLC

\* ------------------------------------------------------------- bounds
\* timer_loop threads that can be alive at once (start_timer is not taken
\* when no slot is free)
MaxLoops == 2
\* on_play_now threads that can be alive at once
MaxOneShots == 1

LoopIds == 1..MaxLoops

\* ------------------------------------------------------------- values
\* JSON values of interval_minutes: a number n/d, null, or the key absent
Num(n, d) == [kind |-> "num", n |-> n, d |-> d]
Null == [kind |-> "null", n |-> 0, d |-> 1]
Absent == [kind |-> "absent", n |-> 0, d |-> 1]
\* a string-valued key that is absent
NoStr == "<absent>"

\* interval values given to set_interval: 1/60 minute and 1/30 minute
IntervalInputs == {Num(1, 60), Num(1, 30)}
\* interval_minutes values a settings file holds before the program starts
FileIntervals == IntervalInputs \cup {Null, Absent}
FileTones == {"tone.wav", NoStr}
FileExtras == {"keep", NoStr}
ToneNames == {"tone.wav"}
\* the presets of the Interval submenu (the arguments of on_set_interval_3,
\* on_set_interval_5 and on_set_interval_10, on the scale of IntervalInputs)
Presets == IntervalInputs

\* the dict literal of load_settings
default_settings ==
    [tone_file |-> "tone.wav", interval_minutes |-> Num(10, 1), extra |-> NoStr]

\* the settings files the constructed player is started from
StartRecords ==
    {[tone_file |-> "tone.wav", interval_minutes |-> Num(1, 60), extra |-> "keep"],
     [tone_file |-> NoStr, interval_minutes |-> Null, extra |-> NoStr]}

\* the dictionaries a settings file can hold
Records == [tone_file : FileTones, interval_minutes : FileIntervals, extra : FileExtras]

\* the settings file on disk: missing, not valid JSON, or a dictionary
NoFile == [exists |-> FALSE, valid |-> FALSE, data |-> default_settings]
BadFile == [exists |-> TRUE, valid |-> FALSE, data |-> default_settings]
FileOf(rec) == [exists |-> TRUE, valid |-> TRUE, data |-> rec]

\* ------------------------------------------------------------- pure code
\* self.settings.get("interval_minutes", 10)
get_interval(s) ==
    IF s.interval_minutes = Absent THEN Num(10, 1) ELSE s.interval_minutes

\* self.settings.get("tone_file", "tone.wav"), joined to the base path
get_audio_path(s) ==
    IF s.tone_file = NoStr THEN "tone.wav" ELSE s.tone_file

\* interval_minutes * 60 raises TypeError when the value is no number
IsNumber(x) == x.kind = "num"

\* interval_seconds = interval_minutes * 60
interval_seconds(x) == Num(x.n * 60, x.d)

\* int(interval_seconds): truncation toward zero
PyInt(x) == IF x.n >= 0 THEN x.n \div x.d ELSE -((-x.n) \div x.d)

\* the number of iterations of: for _ in range(int(interval_seconds))
RangeLen(x) == IF PyInt(x) > 0 THEN PyInt(x) ELSE 0

\* is_startup_enabled: the Run key is opened with KEY_READ, which the user's
\* own hive grants, and the value is queried
is_startup_enabled(r) == r.entry

\* create_menu: the label of the startup item and the presets that carry
\* the bullet, from the registry and the settings at the time of the call
create_menu(s, r) ==
    [startup |-> is_startup_enabled(r),
     active |-> {p \in Presets : get_interval(s) = p},
     shown |-> TRUE]

\* toggle_startup always writing the value, as if the query said "absent"
toggled_always_set(r) == [r EXCEPT !.entry = TRUE]

\* toggle_startup on a key it could open: DeleteValue when the value is
\* there, SetValueEx when it is not
toggled(r) == [r EXCEPT !.entry = ~is_startup_enabled(r)]

\* ------------------------------------------------------------- state
VARIABLES
    file,          \* the settings file on disk
    audioFiles,    \* names of the audio files that exist in the base path
    settings,      \* self.settings
    running,       \* self.running
    timer_thread,  \* self.timer_thread: 0 is None, else the loop's slot
    icon,          \* self.icon is set
    main,          \* the main thread: pc, locals and the last command done
    loops,         \* the timer_loop threads
    shots,         \* the on_play_now threads: how many are before the
                   \* existence check and how many inside the playback
    lastPlay,      \* outcome of the last play_audio call that found no file
    si,            \* the wait, in seconds, that the last command set up by
                   \* restarting the loop in set_interval; -1 when it was
                   \* another command
    registry,      \* the Run key of the current user: whether it holds the
                   \* SoundbarTonePlayer value, and whether the user may
                   \* open it with KEY_ALL_ACCESS
    menu           \* self.icon.menu, as create_menu rendered it

vars == <<file, audioFiles, settings, running, timer_thread, icon, main,
          loops, shots, lastPlay, si, registry, menu>>

NoLoop == [pc |-> "none", secs |-> 0, i |-> 0]
WhileLoop == [pc |-> "while", secs |-> 0, i |-> 0]
NoPlay == [caller |-> "none", found |-> FALSE, ret |-> FALSE, logs |-> 0,
           notifs |-> 0, audio |-> FALSE, raised |-> FALSE]
NoSi == -1
\* no on_play_now thread is alive
NoShots == [play |-> 0, playing |-> 0]
Main(pc) == [pc |-> pc, v |-> Absent, ret |-> "none", saw |-> FALSE,
             last |-> "none", old |-> default_settings, notes |-> {}]
\* no menu yet: run_systray has not built the icon
NoMenu == [startup |-> FALSE, active |-> {}, shown |-> FALSE]
\* the Run key without the value, writable
NoEntry == [entry |-> FALSE, writable |-> TRUE]

\* the program before TonePlayer() is constructed, over every settings file
InitLoad ==
    /\ file \in {NoFile, BadFile} \cup {FileOf(r) : r \in Records}
    /\ audioFiles \in SUBSET ToneNames
    /\ settings = default_settings
    /\ running = FALSE
    /\ timer_thread = 0
    /\ icon = FALSE
    /\ main = Main("load")
    /\ loops = [t \in LoopIds |-> NoLoop]
    /\ shots = NoShots
    /\ lastPlay = NoPlay
    /\ si = NoSi
    /\ registry = NoEntry
    /\ menu = NoMenu

\* the program after TonePlayer() was constructed from a settings file that
\* sets interval_minutes (to a number or to null)
Init ==
    /\ \E r \in StartRecords :
         /\ file = FileOf(r)
         /\ settings = r
         /\ main = Main("main")
    /\ audioFiles \in SUBSET ToneNames
    /\ running = FALSE
    /\ timer_thread = 0
    /\ icon = FALSE
    /\ loops = [t \in LoopIds |-> NoLoop]
    /\ shots = NoShots
    /\ lastPlay = NoPlay
    /\ si = NoSi
    /\ registry = NoEntry
    /\ menu = NoMenu

\* ------------------------------------------------------------- helpers
Alive == main.pc # "exited"
Live == {t \in LoopIds : loops[t].pc # "none"}
FreeLoops == LoopIds \ Live
FreeShots == MaxOneShots - (shots.play + shots.playing)
Lowest(S) == CHOOSE x \in S : \A y \in S : x <= y

\* ------------------------------------------------------------- settings
\* load_settings writing the defaults whether or not the file exists
load_settings_overwrite(f) ==
    [file |-> FileOf(default_settings),
     ret |-> IF ~f.exists THEN default_settings ELSE f.data]

\* load_settings: what it leaves on disk and what it returns, when the file
\* is missing (and can be written) or holds a dictionary
load_settings(f) ==
    IF ~f.exists
    THEN [file |-> FileOf(default_settings), ret |-> default_settings]
    ELSE [file |-> f, ret |-> f.data]

\* save_settings writing the interval into a fresh default record
save_settings_partial(s) ==
    FileOf([default_settings EXCEPT !.interval_minutes = s.interval_minutes])

\* save_settings: json.dump of the whole in-memory dictionary
save_settings(s) == FileOf(s)

\* __init__ -> load_settings, file missing: the defaults are written and
\* returned; open(..., 'w') failing raises out of the constructor
load_settings_create ==
    /\ main.pc = "load"
    /\ ~file.exists
    /\ \E ok \in BOOLEAN :
         IF ok
         THEN /\ file' = load_settings(file).file
              /\ settings' = load_settings(file).ret
              /\ main' = [main EXCEPT !.pc = "main", !.last = "created"]
         ELSE /\ main' = [main EXCEPT !.pc = "exited", !.last = "raised"]
              /\ UNCHANGED <<file, settings>>
    /\ UNCHANGED <<audioFiles, running, timer_thread, icon, loops, shots,
                   lastPlay, si>>
    /\ UNCHANGED <<registry, menu>>

\* __init__ -> load_settings, file present and a JSON dictionary
load_settings_read ==
    /\ main.pc = "load"
    /\ file.exists /\ file.valid
    /\ file' = load_settings(file).file
    /\ settings' = load_settings(file).ret
    /\ main' = [main EXCEPT !.pc = "main", !.last = "loaded", !.old = file.data]
    /\ UNCHANGED <<audioFiles, running, timer_thread, icon, loops, shots,
                   lastPlay, si>>
    /\ UNCHANGED <<registry, menu>>

\* __init__ -> load_settings, json.load raises: main() ends with the error
load_settings_raise ==
    /\ main.pc = "load"
    /\ file.exists /\ ~file.valid
    /\ main' = [main EXCEPT !.pc = "exited", !.last = "raised"]
    /\ UNCHANGED <<file, audioFiles, settings, running, timer_thread, icon,
                   loops, shots, lastPlay, si>>
    /\ UNCHANGED <<registry, menu>>

\* ------------------------------------------------------------- play_audio
\* play_audio notifying without testing self.icon
play_audio_missing_unguarded(caller) ==
    [caller |-> caller, found |-> FALSE, ret |-> FALSE, logs |-> 1,
     notifs |-> 1, audio |-> FALSE, raised |-> FALSE]

\* play_audio up to the existence check: the not-found branch logs, notifies
\* through the icon when there is one, and returns False
play_audio_missing(caller) ==
    [caller |-> caller, found |-> FALSE, ret |-> FALSE, logs |-> 1,
     notifs |-> IF icon THEN 1 ELSE 0, audio |-> FALSE, raised |-> FALSE]

AudioExists == get_audio_path(settings) \in audioFiles
\* ------------------------------------------------------------- timer_loop
\* the value timer_loop computes for its wait; the multiplication raises
\* when interval_minutes is no number, which ends the thread
loop_cycle(s) ==
    IF IsNumber(get_interval(s))
    THEN [pc |-> "play", secs |-> RangeLen(interval_seconds(get_interval(s))), i |-> 0]
    ELSE NoLoop

\* the for loop without its test of self.running
for_step_unchecked(l) ==
    IF l.i < l.secs THEN [l EXCEPT !.pc = "sleep"] ELSE WhileLoop

\* the for loop computing its range again from the settings at each step
for_step_rereads(l) ==
    IF l.i < RangeLen(interval_seconds(get_interval(settings))) /\ running
    THEN [l EXCEPT !.pc = "sleep",
                   !.secs = RangeLen(interval_seconds(get_interval(settings)))]
    ELSE WhileLoop

\* for _ in range(int(interval_seconds)): if not self.running: break;
\* time.sleep(1).  l is the thread with i iterations done: it sleeps again,
\* or leaves the for loop for the while test
for_step(l) ==
    IF l.i < l.secs /\ running THEN [l EXCEPT !.pc = "sleep"] ELSE WhileLoop

\* while self.running: ... interval_seconds = interval_minutes * 60
timer_loop_while(t) ==
    /\ Alive
    /\ loops[t].pc = "while"
    /\ loops' = [loops EXCEPT ![t] = IF running THEN loop_cycle(settings) ELSE NoLoop]
    /\ UNCHANGED <<file, audioFiles, settings, running, timer_thread, icon,
                   main, shots, lastPlay, si>>
    /\ UNCHANGED <<registry, menu>>

\* self.play_audio(): the existence check; not found returns at once,
\* found blocks in sf.read / sd.play / sd.wait
timer_loop_play(t) ==
    /\ Alive
    /\ loops[t].pc = "play"
    /\ IF AudioExists
       THEN /\ loops' = [loops EXCEPT ![t].pc = "playing"]
            /\ UNCHANGED lastPlay
       ELSE /\ lastPlay' = play_audio_missing("loop")
            /\ loops' = [loops EXCEPT ![t] =
                           IF play_audio_missing("loop").raised
                           THEN NoLoop ELSE for_step(loops[t])]
    /\ UNCHANGED <<file, audioFiles, settings, running, timer_thread, icon,
                   main, shots, si>>
    /\ UNCHANGED <<registry, menu>>

\* the playback ends (played, RuntimeError, or another Exception: the
\* loop drops what play_audio returns) and the for loop is entered
timer_loop_played(t) ==
    /\ Alive
    /\ loops[t].pc = "playing"
    /\ loops' = [loops EXCEPT ![t] = for_step(loops[t])]
    /\ UNCHANGED <<file, audioFiles, settings, running, timer_thread, icon,
                   main, shots, lastPlay, si>>
    /\ UNCHANGED <<registry, menu>>

\* time.sleep(1) returns, and the for loop goes on
timer_loop_sleep(t) ==
    /\ Alive
    /\ loops[t].pc = "sleep"
    /\ loops' = [loops EXCEPT ![t] = for_step([loops[t] EXCEPT !.i = @ + 1])]
    /\ UNCHANGED <<file, audioFiles, settings, running, timer_thread, icon,
                   main, shots, lastPlay, si>>
    /\ UNCHANGED <<registry, menu>>

\* ------------------------------------------------------------- Play Now
\* on_play_now starting the playback by starting the periodic loop afresh
on_play_now_restarts ==
    /\ main.pc = "idle"
    /\ FreeShots > 0
    /\ timer_thread # 0
    /\ shots' = [shots EXCEPT !.play = @ + 1]
    /\ loops' = [loops EXCEPT ![timer_thread] = WhileLoop]
    /\ UNCHANGED <<file, audioFiles, settings, running, timer_thread, icon,
                   main, lastPlay, si>>
    /\ UNCHANGED <<registry, menu>>

\* on_play_now: threading.Thread(target=self.play_audio).start()
on_play_now ==
    /\ main.pc = "idle"
    /\ FreeShots > 0
    /\ shots' = [shots EXCEPT !.play = @ + 1]
    /\ UNCHANGED <<file, audioFiles, settings, running, timer_thread, icon,
                   main, loops, lastPlay, si>>
    /\ UNCHANGED <<registry, menu>>

\* play_audio on the one-shot thread: the existence check
shot_play ==
    /\ Alive
    /\ shots.play > 0
    /\ IF AudioExists
       THEN /\ shots' = [shots EXCEPT !.play = @ - 1, !.playing = @ + 1]
            /\ UNCHANGED lastPlay
       ELSE /\ lastPlay' = play_audio_missing("play_now")
            /\ shots' = [shots EXCEPT !.play = @ - 1]
    /\ UNCHANGED <<file, audioFiles, settings, running, timer_thread, icon,
                   main, loops, si>>
    /\ UNCHANGED <<registry, menu>>

\* the one-shot playback ends and its thread with it
shot_played ==
    /\ Alive
    /\ shots.playing > 0
    /\ shots' = [shots EXCEPT !.playing = @ - 1]
    /\ UNCHANGED <<file, audioFiles, settings, running, timer_thread, icon,
                   main, loops, lastPlay, si>>
    /\ UNCHANGED <<registry, menu>>

\* ------------------------------------------------------------- --test
\* main(): sys.argv[1] in ['--test', '-t']
main_test ==
    /\ main.pc = "main"
    /\ main' = [main EXCEPT !.pc = "test_play"]
    /\ UNCHANGED <<file, audioFiles, settings, running, timer_thread, icon,
                   loops, shots, lastPlay, si>>
    /\ UNCHANGED <<registry, menu>>

\* test_play: success = self.play_audio(), on the main thread, no icon
test_play ==
    /\ main.pc = "test_play"
    /\ IF AudioExists
       THEN /\ main' = [main EXCEPT !.pc = "test_playing"]
            /\ UNCHANGED lastPlay
       ELSE /\ lastPlay' = play_audio_missing("test")
            /\ main' = [main EXCEPT !.pc = "exited",
                          !.last = IF play_audio_missing("test").raised
                                   THEN "raised" ELSE "test_failed"]
    /\ UNCHANGED <<file, audioFiles, settings, running, timer_thread, icon,
                   loops, shots, si>>
    /\ UNCHANGED <<registry, menu>>

\* the test playback ends; the report is printed and main() returns
test_played ==
    /\ main.pc = "test_playing"
    /\ \E ok \in BOOLEAN :
         main' = [main EXCEPT !.pc = "exited",
                    !.last = IF ok THEN "test_ok" ELSE "test_failed"]
    /\ UNCHANGED <<file, audioFiles, settings, running, timer_thread, icon,
                   loops, shots, lastPlay, si>>
    /\ UNCHANGED <<registry, menu>>
\* ------------------------------------------------------------- the timer
\* start_timer without its test of self.running
start_timer_unguarded ==
    /\ FreeLoops # {}
    /\ running' = TRUE
    /\ timer_thread' = Lowest(FreeLoops)
    /\ loops' = [loops EXCEPT ![Lowest(FreeLoops)] = WhileLoop]

\* the notification of start_timer: sent when the loop was started and the
\* icon exists
start_notes(ic) == IF ~running /\ ic THEN {"Tone Player Started"} ELSE {}

\* start_timer: if not self.running, set the flag and start a new
\* timer_loop thread, kept in self.timer_thread
start_timer ==
    IF ~running
    THEN /\ FreeLoops # {}
         /\ running' = TRUE
         /\ timer_thread' = Lowest(FreeLoops)
         /\ loops' = [loops EXCEPT ![Lowest(FreeLoops)] = WhileLoop]
    ELSE UNCHANGED <<running, timer_thread, loops>>

\* stop_timer up to the join: if self.running, clear the flag and, when
\* there is a thread handle, join it; cont is where the caller goes on
stop_timer(cont, cmd) ==
    IF running
    THEN /\ running' = FALSE
         /\ main' = [main EXCEPT !.pc = IF timer_thread # 0 THEN "join" ELSE cont,
                                 !.ret = IF timer_thread # 0 THEN cont ELSE "none",
                                 !.saw = TRUE, !.last = cmd, !.notes = {}]
    ELSE /\ running' = running
         /\ main' = [main EXCEPT !.pc = cont, !.saw = FALSE,
                                 !.last = cmd, !.notes = {}]

\* self.timer_thread.join(timeout=2) returns: the thread has ended, or the
\* 2 seconds ran out with the thread still inside a playback
join_returns ==
    /\ main.pc = "join"
    /\ loops[timer_thread].pc \in {"none", "playing"}
    /\ main' = [main EXCEPT !.pc = main.ret, !.ret = "none"]
    /\ UNCHANGED <<file, audioFiles, settings, running, timer_thread, icon,
                   loops, shots, lastPlay, si>>
    /\ UNCHANGED <<registry, menu>>

\* a caller of the player invokes start_timer()
call_start_timer ==
    /\ main.pc = "idle"
    /\ main' = [main EXCEPT !.pc = "start_timer"]
    /\ UNCHANGED <<file, audioFiles, settings, running, timer_thread, icon,
                   loops, shots, lastPlay, si>>
    /\ UNCHANGED <<registry, menu>>

\* start_timer() runs and returns
run_start_timer ==
    /\ main.pc = "start_timer"
    /\ start_timer
    /\ main' = [main EXCEPT !.pc = "idle", !.last = "start_timer", !.saw = running,
                            !.notes = start_notes(icon)]
    /\ UNCHANGED <<file, audioFiles, settings, icon, shots, lastPlay, si>>
    /\ UNCHANGED <<registry, menu>>

\* a caller of the player invokes stop_timer()
call_stop_timer ==
    /\ main.pc = "idle"
    /\ main' = [main EXCEPT !.pc = "stop_timer"]
    /\ UNCHANGED <<file, audioFiles, settings, running, timer_thread, icon,
                   loops, shots, lastPlay, si>>
    /\ UNCHANGED <<registry, menu>>

\* stop_timer() runs, up to its join
run_stop_timer ==
    /\ main.pc = "stop_timer"
    /\ stop_timer("idle", "stop_timer")
    /\ si' = NoSi
    /\ UNCHANGED <<file, audioFiles, settings, timer_thread, icon, loops,
                   shots, lastPlay>>
    /\ UNCHANGED <<registry, menu>>

\* ------------------------------------------------------------- set_interval
\* set_interval(minutes): self.settings["interval_minutes"] = minutes
set_interval(v) ==
    /\ main.pc = "idle"
    /\ settings' = [settings EXCEPT !.interval_minutes = v]
    /\ main' = [main EXCEPT !.pc = "si_save", !.v = v, !.old = settings,
                            !.last = "set_interval_call", !.notes = {}]
    /\ si' = NoSi
    /\ UNCHANGED <<file, audioFiles, running, timer_thread, icon, loops,
                   shots, lastPlay>>
    /\ UNCHANGED <<registry, menu>>

\* set_interval taking the loop for running whatever self.running holds
was_running_always == TRUE

\* was_running = self.running
was_running == running

\* set_interval going on after a save that failed, as if it had succeeded
save_swallowed ==
    /\ UNCHANGED file
    /\ IF was_running
       THEN stop_timer("si_pause", "set_interval") /\ UNCHANGED menu
       ELSE /\ running' = running
            /\ menu' = menu
            /\ main' = [Main("idle") EXCEPT !.last = "set_interval",
                                            !.notes = {"Interval Updated"}]

\* save_settings raises (open or json.dump fails): nothing of set_interval
\* after line 147 is run, and the error leaves set_interval
save_raises ==
    /\ main' = [Main("idle") EXCEPT !.last = "set_interval_raised"]
    /\ UNCHANGED <<file, running, menu>>

\* the notification that ends set_interval, sent when the icon exists
interval_notes == IF icon THEN {"Interval Updated"} ELSE {}

\* self.save_settings(), then was_running = self.running: stop_timer() when
\* running, else the menu is rebuilt (when the icon exists) and the
\* notification sent.  A failing save raises out of set_interval.
set_interval_save ==
    /\ main.pc = "si_save"
    /\ \E ok \in BOOLEAN :
         IF ok
         THEN /\ file' = save_settings(settings)
              /\ IF was_running
                 THEN stop_timer("si_pause", "set_interval") /\ UNCHANGED menu
                 ELSE /\ running' = running
                      /\ menu' = IF icon THEN create_menu(settings, registry) ELSE menu
                      /\ main' = [Main("idle") EXCEPT !.last = "set_interval",
                                                      !.notes = interval_notes]
         ELSE save_raises
    /\ UNCHANGED <<audioFiles, settings, timer_thread, icon, loops, shots,
                   lastPlay, si, registry>>

\* time.sleep(0.5) returns; self.start_timer(); the notification
set_interval_restart ==
    /\ main.pc = "si_pause"
    /\ start_timer
    /\ main' = [Main("idle") EXCEPT !.last = "set_interval", !.saw = TRUE,
                                    !.notes = start_notes(icon) \cup interval_notes]
    /\ si' = RangeLen(interval_seconds(main.v))
    /\ UNCHANGED <<file, audioFiles, settings, icon, shots, lastPlay>>
    /\ UNCHANGED <<registry, menu>>

\* ------------------------------------------------------------- the tray
\* toggle_startup: OpenKey(KEY_ALL_ACCESS) raising is caught, logged and
\* notified; else the value is deleted or written, the change notified and
\* the menu rebuilt.  main.last counts a second consecutive call, and
\* main.saw keeps whether the value was there before the first one.
toggle_startup ==
    /\ main.pc = "idle"
    /\ IF registry.writable
       THEN /\ registry' = toggled(registry)
            /\ menu' = IF icon THEN create_menu(settings, registry') ELSE menu
       ELSE UNCHANGED <<registry, menu>>
    /\ main' = [Main("idle") EXCEPT
                  !.last = IF main.last = "toggle_startup"
                           THEN "toggle_startup_twice" ELSE "toggle_startup",
                  !.saw = IF main.last = "toggle_startup"
                          THEN main.saw ELSE registry.entry,
                  !.notes = IF ~icon THEN {}
                            ELSE IF ~registry.writable THEN {"Error"}
                            ELSE IF is_startup_enabled(registry)
                                 THEN {"Startup Disabled"}
                                 ELSE {"Startup Enabled"}]
    /\ UNCHANGED <<file, audioFiles, settings, running, timer_thread, icon,
                   loops, shots, lastPlay, si>>

\* run_systray: the menu and the icon are created, start_timer(), icon.run()
run_systray ==
    /\ main.pc = "main"
    /\ menu' = create_menu(settings, registry)
    /\ icon' = TRUE
    /\ start_timer
    /\ main' = [main EXCEPT !.pc = "idle", !.notes = start_notes(TRUE)]
    /\ UNCHANGED <<file, audioFiles, settings, shots, lastPlay, si, registry>>

\* on_quit: self.stop_timer()
on_quit ==
    /\ main.pc = "idle"
    /\ stop_timer("quit", "on_quit")
    /\ si' = NoSi
    /\ UNCHANGED <<file, audioFiles, settings, timer_thread, icon, loops,
                   shots, lastPlay>>
    /\ UNCHANGED <<registry, menu>>

\* on_quit: icon.stop()
icon_stop ==
    /\ main.pc = "quit"
    /\ main' = [main EXCEPT !.pc = "stopped"]
    /\ UNCHANGED <<file, audioFiles, settings, running, timer_thread, icon,
                   loops, shots, lastPlay, si>>
    /\ UNCHANGED <<registry, menu>>

\* icon.run() returns, main() returns: the process and its daemon threads end
process_exit ==
    /\ main.pc = "stopped"
    /\ main' = [main EXCEPT !.pc = "exited"]
    /\ UNCHANGED <<file, audioFiles, settings, running, timer_thread, icon,
                   loops, shots, lastPlay, si>>
    /\ UNCHANGED <<registry, menu>>

\* ------------------------------------------------------------- the system
\* main() with --test: the constructor, then test_play
NextLoad ==
    \/ load_settings_create
    \/ load_settings_read
    \/ load_settings_raise
    \/ main_test
    \/ test_play
    \/ test_played

SpecLoad == InitLoad /\ [][NextLoad]_vars

\* the constructed player: --test, or the tray with its commands and threads
Next ==
    \/ main_test
    \/ test_play
    \/ test_played
    \/ run_systray
    \/ call_start_timer
    \/ run_start_timer
    \/ call_stop_timer
    \/ run_stop_timer
    \/ join_returns
    \/ \E v \in IntervalInputs : set_interval(v)
    \/ set_interval_save
    \/ set_interval_restart
    \/ on_play_now
    \/ on_quit
    \/ icon_stop
    \/ process_exit
    \/ \E t \in LoopIds :
         \/ timer_loop_while(t)
         \/ timer_loop_play(t)
         \/ timer_loop_played(t)
         \/ timer_loop_sleep(t)
    \/ shot_play
    \/ shot_played

Spec == Init /\ [][Next]_vars

\* the tray started from one settings file, over every state of the Run key
InitMenu ==
    /\ file = FileOf([tone_file |-> "tone.wav", interval_minutes |-> Num(1, 60),
                      extra |-> NoStr])
    /\ settings = file.data
    /\ main = Main("main")
    /\ audioFiles \in SUBSET ToneNames
    /\ running = FALSE
    /\ timer_thread = 0
    /\ icon = FALSE
    /\ loops = [t \in LoopIds |-> NoLoop]
    /\ shots = NoShots
    /\ lastPlay = NoPlay
    /\ si = NoSi
    /\ registry \in [entry : BOOLEAN, writable : BOOLEAN]
    /\ menu = NoMenu

\* the tray with the commands that render the menu (the startup item and
\* the presets), stop_timer, Exit, and the timer_loop threads
NextMenu ==
    \/ run_systray
    \/ toggle_startup
    \/ \E v \in IntervalInputs : set_interval(v)
    \/ set_interval_save
    \/ set_interval_restart
    \/ call_stop_timer
    \/ run_stop_timer
    \/ join_returns
    \/ on_quit
    \/ icon_stop
    \/ process_exit
    \/ \E t \in LoopIds :
         \/ timer_loop_while(t)
         \/ timer_loop_play(t)
         \/ timer_loop_played(t)
         \/ timer_loop_sleep(t)

SpecMenu == InitMenu /\ [][NextMenu]_vars
\* ------------------------------------------------------------- claims
\* C1: at most one timer_loop thread is alive at any time, whatever sequence
\* of start_timer, stop_timer, set_interval and on_quit was run.
C1_AtMostOneLoop == Cardinality(Live) <= 1

\* C2: start_timer run while the player is running changes nothing, and
\* stop_timer run while it is stopped changes nothing and returns at once;
\* start_timer run while it is stopped starts exactly one loop thread.
C2_StartStopIdempotent ==
    [][/\ (main.pc = "start_timer" /\ main'.pc = "idle" /\ running) =>
            UNCHANGED <<running, timer_thread, loops, settings, file, icon, shots>>
       /\ (main.pc = "start_timer" /\ main'.pc = "idle" /\ ~running) =>
            /\ running'
            /\ Cardinality(Live') = Cardinality(Live) + 1
       /\ (main.pc = "stop_timer" /\ main'.pc # "stop_timer" /\ ~running) =>
            /\ main'.pc = "idle"
            /\ UNCHANGED <<running, timer_thread, loops, settings, file, icon, shots>>
      ]_vars

\* start_timer has returned from a call made while the player was running,
\* and one loop thread is alive
C2_Witness ==
    /\ main.pc = "idle" /\ main.last = "start_timer" /\ main.saw
    /\ running /\ Cardinality(Live) = 1

\* C3: after set_interval(v) restarted the loop, every wait of the periodic
\* loop lasts v*60 one-second steps: no loop thread waits on another interval.
C3_RestartWaitsNewInterval ==
    si >= 0 => \A t \in LoopIds : loops[t].pc = "sleep" => loops[t].secs = si

\* C4: when set_interval(v) returns normally, the settings in memory and the
\* settings file both hold interval_minutes = v, and both hold every other
\* field as it was before the call.
C4_SetIntervalPersists ==
    [][(main.pc \in {"si_save", "si_pause"} /\ main'.pc = "idle"
          /\ main'.last = "set_interval") =>
         /\ settings'.interval_minutes = main.v
         /\ settings'.tone_file = main.old.tone_file
         /\ settings'.extra = main.old.extra
         /\ file'.exists /\ file'.valid
         /\ file'.data.interval_minutes = main.v
         /\ file'.data.tone_file = main.old.tone_file
         /\ file'.data.extra = main.old.extra
      ]_vars

\* set_interval(1/30) has returned after restarting the loop of a player
\* whose file held 1/60 and an unknown field
C4_Witness ==
    /\ main.pc = "idle" /\ main.last = "set_interval" /\ main.saw
    /\ settings.interval_minutes = Num(1, 30) /\ settings.extra = "keep"
    /\ file = FileOf(settings)

\* C5: while the running flag is true a timer_loop thread is alive, whatever
\* play_audio did and whatever interval_minutes holds.
C5_RunningImpliesLoop == running => Live # {}

\* C6: from the moment icon.stop() was invoked by on_quit, the running flag
\* is false and no timer_loop thread begins a playback attempt.
C6_QuitStopsLoop ==
    [][main.pc = "stopped" =>
         /\ ~running
         /\ \A t \in LoopIds : loops[t].pc = "play" => loops'[t].pc = "play"
      ]_vars

\* C7 as stated: a play_audio call that finds no audio file returns False,
\* sends exactly one not-found notification, does not raise and does not
\* reach the audio output, for the loop, Play Now and --test alike.
C7_NotFoundOneNotification ==
    lastPlay.caller # "none" =>
      /\ lastPlay.ret = FALSE
      /\ lastPlay.notifs = 1
      /\ ~lastPlay.audio
      /\ ~lastPlay.raised

\* C7 as amended: a play_audio call that finds no audio file returns False,
\* logs exactly one not-found line, does not raise and does not reach the
\* audio output; it sends exactly one not-found notification when called
\* from the loop or from Play Now (the icon exists) and none when called
\* from --test (there is no icon).
C7_NotFoundReported ==
    lastPlay.caller # "none" =>
      /\ lastPlay.ret = FALSE
      /\ lastPlay.logs = 1
      /\ lastPlay.notifs = (IF lastPlay.caller = "test" THEN 0 ELSE 1)
      /\ ~lastPlay.audio
      /\ ~lastPlay.raised
      /\ (lastPlay.caller = "test" => main.last = "test_failed")

\* test_play has returned after play_audio found no audio file
C7_Witness == lastPlay.caller = "test" /\ main.pc = "exited"

\* C8: whenever no method of the player is under way, self.timer_thread is
\* set if and only if self.running is true.
C8_ThreadIffRunning ==
    main.pc \in {"main", "idle", "quit", "stopped"} =>
      ((timer_thread # 0) <=> running)

\* C9: once load_settings has returned, the settings in memory hold both
\* tone_file and interval_minutes, and the file holds the same merged record.
C9_BothFieldsPopulated ==
    (main.pc # "load" /\ main.last # "raised") =>
      /\ settings.tone_file # NoStr
      /\ settings.interval_minutes # Absent
      /\ file = FileOf(settings)

\* C10: load_settings with no settings file leaves a file holding exactly
\* the defaults and returns them; with a settings file it leaves the file
\* as it was and returns its content.
C10_LoadDefaults ==
    main.pc = "main" =>
      /\ main.last = "created" =>
           file = FileOf(default_settings) /\ settings = default_settings
      /\ main.last = "loaded" =>
           file = FileOf(main.old) /\ settings = main.old

\* load_settings has returned after creating the missing settings file
C10_Witness == main.pc = "main" /\ main.last = "created" /\ file.exists

\* C11: two consecutive toggle_startup calls leave the SoundbarTonePlayer
\* value of the Run key as it was before the first call, present or absent.
C11_ToggleTwiceRestores ==
    main.last = "toggle_startup_twice" => registry.entry = main.saw

\* toggle_startup has returned twice in a row on a writable key that held
\* the value: it was deleted, then written again
C11_Witness ==
    /\ main.pc = "idle" /\ main.last = "toggle_startup_twice"
    /\ registry.writable /\ main.saw /\ registry.entry
    /\ main.notes = {"Startup Enabled"}

\* C12: once stop_timer has cleared the flag and as long as no start_timer
\* sets it again, a loop thread that was sleeping finishes the sleep step it
\* is in and leaves the for loop (no further sleep step), and from the while
\* test it ends without a playback attempt; stop_timer and its join leave
\* every loop thread as it is, and the join returns only when the joined
\* thread has ended or is inside a playback.
C12_CooperativeStop ==
    [][/\ (~running /\ ~running') =>
            \A t \in LoopIds :
              /\ loops[t].pc = "sleep" => loops'[t] \in {loops[t], WhileLoop}
              /\ loops[t].pc = "while" => loops'[t] \in {loops[t], NoLoop}
       /\ (running /\ ~running') => loops' = loops
       /\ (main.pc = "join" /\ main' # main) =>
            /\ loops' = loops
            /\ loops[timer_thread].pc \in {"none", "playing"}
            /\ main'.pc = main.ret
      ]_vars

\* stop_timer has cleared the flag and waits in its join while the loop
\* thread is in the first of two sleep steps
C12_Witness ==
    /\ main.pc = "join" /\ main.last = "stop_timer" /\ ~running
    /\ loops[timer_thread] = [pc |-> "sleep", secs |-> 2, i |-> 0]

\* what a loop thread does in one step of a cycle: the wait count is the one
\* computed from the settings when the cycle began, one playback attempt is
\* made, and each sleep step counts one second of that wait
CycleStep(t) ==
    /\ (loops[t].pc = "while" /\ loops'[t].pc \notin {"while", "none"}) =>
         loops'[t] = [pc |-> "play", i |-> 0,
                      secs |-> RangeLen(interval_seconds(get_interval(settings)))]
    /\ (loops[t].pc = "play" /\ loops'[t] # loops[t]) =>
         loops'[t] \in {[loops[t] EXCEPT !.pc = "playing"],
                        [loops[t] EXCEPT !.pc = "sleep"], WhileLoop}
    /\ (loops[t].pc = "playing" /\ loops'[t] # loops[t]) =>
         loops'[t] \in {[loops[t] EXCEPT !.pc = "sleep"], WhileLoop}
    /\ (loops[t].pc = "sleep" /\ loops'[t] # loops[t]) =>
         loops'[t] \in {[loops[t] EXCEPT !.i = @ + 1], WhileLoop}

\* C13 as stated: each cycle of timer_loop reads interval_minutes once, makes
\* one playback attempt and waits the count computed from that value; a
\* change of the interval made by set_interval while the loop sleeps does
\* not shorten the wait under way: a thread sleeping on the count of the
\* interval it read before the change leaves its wait only after the last
\* step.
C13_ChangeLeavesWait ==
    [][\A t \in LoopIds :
         /\ CycleStep(t)
         /\ (/\ main.pc \in {"si_save", "join", "si_pause"}
             /\ main.last \in {"set_interval_call", "set_interval"}
             /\ loops[t].pc = "sleep" /\ loops'[t].pc # "sleep"
             /\ loops[t].secs # RangeLen(interval_seconds(get_interval(settings)))) =>
              loops[t].i + 1 = loops[t].secs
      ]_vars

\* C13 as amended: each cycle of timer_loop reads interval_minutes once, makes
\* one playback attempt and waits the count computed from that value; a
\* change of the settings does not change the count of the wait under way,
\* which ends after its last step, or at the next one-second check once the
\* running flag is cleared (as set_interval does when it restarts the loop).
C13_CycleUsesIntervalRead ==
    [][\A t \in LoopIds :
         /\ CycleStep(t)
         /\ (loops[t].pc = "sleep" /\ loops'[t].pc # "sleep") =>
              (loops[t].i + 1 = loops[t].secs \/ ~running)
         /\ (loops[t].pc = "sleep" /\ loops'[t].pc = "sleep") =>
              loops'[t].secs = loops[t].secs
      ]_vars

\* set_interval changed the interval in memory and failed to save it while
\* the loop, still running, sleeps on the count of the interval it read
C13_Witness ==
    /\ main.pc = "idle" /\ main.last = "set_interval_raised" /\ running
    /\ loops[timer_thread].pc = "sleep"
    /\ loops[timer_thread].secs # RangeLen(interval_seconds(get_interval(settings)))

\* C14: when set_interval (loop running or stopped) or a toggle_startup that
\* changed the registry has returned, the menu shown is the one create_menu renders from the current
\* settings and registry: the bullet is on the preset equal to
\* interval_minutes and the startup label tells whether the value exists.
C14_MenuShowsLiveState ==
    (main.pc = "idle" /\ main.last \in {"set_interval", "toggle_startup",
                                        "toggle_startup_twice"}
       /\ main.notes # {"Error"}) =>
      menu = create_menu(settings, registry)

\* C15: when save_settings fails inside set_interval, the error leaves
\* set_interval: the running flag, the thread handle and the loop threads
\* are as they were, and no notification is sent.
C15_SaveFailureFailsCommand ==
    [][(main.pc = "si_save" /\ main' # main /\ file' # save_settings(settings)) =>
         /\ main'.pc = "idle" /\ main'.last = "set_interval_raised"
         /\ main'.notes = {}
         /\ UNCHANGED <<running, timer_thread, loops, file>>
      ]_vars

\* set_interval has raised out of a failed save while the loop was running:
\* the loop is still running on its thread, the file holds the old interval
C15_Witness ==
    /\ main.pc = "idle" /\ main.last = "set_interval_raised"
    /\ running /\ timer_thread # 0 /\ loops[timer_thread].pc # "none"
    /\ file.data.interval_minutes # settings.interval_minutes

\* C16: set_interval on a stopped player, its save done, returns having
\* rebuilt the menu and sent its notification, and nothing else: the flag
\* stays false, no thread is started, no thread and no playback is touched.
C16_StoppedSetIntervalOnlySaves ==
    [][(main.pc = "si_save" /\ ~running /\ main' # main
          /\ main'.last # "set_interval_raised") =>
         /\ main'.pc = "idle" /\ main'.last = "set_interval"
         /\ main'.notes = {"Interval Updated"}
         /\ file' = FileOf(settings) /\ settings' = settings
         /\ menu' = create_menu(settings, registry)
         /\ ~running'
         /\ UNCHANGED <<timer_thread, loops, shots, lastPlay>>
      ]_vars

\* set_interval(1/30) has returned on a stopped player: saved, menu rebuilt,
\* flag false, no loop thread alive
C16_Witness ==
    /\ main.pc = "idle" /\ main.last = "set_interval" /\ ~main.saw
    /\ ~running /\ Live = {}
    /\ settings.interval_minutes = Num(1, 30) /\ file = FileOf(settings)
    /\ menu.active = {Num(1, 30)}

\* C17: on_play_now and the one-shot thread it starts leave the running
\* flag, the thread handle, the settings and every loop thread (its position
\* and its wait count) as they are, and on_play_now returns at once: the
\* main thread is idle again in the step that starts the one-shot thread.
C17_PlayNowLeavesSchedule ==
    [][shots' # shots =>
         /\ UNCHANGED <<running, timer_thread, settings, file, loops, main>>
         /\ (shots'.play > shots.play => main.pc = "idle")
      ]_vars

\* a one-shot playback and a periodic playback overlap while the loop that
\* plays is the running one
C17_Witness ==
    /\ main.pc = "idle" /\ running
    /\ shots.playing > 0
    /\ loops[timer_thread].pc = "playing"

\* C18: whenever no set_interval is under way, the interval the loop reads
\* from the settings in memory is the one the settings file holds, also
\* after a set_interval whose save failed.
C18_MemoryMatchesFile ==
    (main.pc \notin {"si_save", "si_pause"}
       /\ ~(main.pc = "join" /\ main.ret = "si_pause")) =>
      get_interval(settings) = get_interval(file.data)
====
